---- MODULE Spec2Model ----
(***************************************************************************)
(* Render pipeline and driving loop of rpi-music-visualizer:               *)
(*   src/src/gfx/gfx.rs           run, the two render loops, GfxPipeline   *)
(*   src/src/visualizer/smiley.rs SmileyVisualizer                         *)
(*                                                                         *)
(* f32 scalars are modelled by integers that count a power-of-two unit,    *)
(* with IEEE-754 round-to-nearest-even applied after every operation:      *)
(*   phase and its constants    in units of 2^-27 (0.1f = 13421773 units)  *)
(*   band values and amplitude  in units of 2^-3  (1.0  = 8 units)         *)
(***************************************************************************)
EXTENDS Integers, Sequences, FiniteSets, TLC

(* ------------------------------ bounds --------------------------------- *)

\* frames the producer sends in the headless loop
MaxFrames == 10

\* frames the producer sends in the windowed loop
MaxWindowedFrames == 2

\* frames other than the all-zero frame among those the producer sends
MaxLoudFrames == 2

\* windowing-system events delivered to the windowed loop
MaxEvents == 2

\* update calls applied to a lone SmileyVisualizer (two wraps of the phase)
MaxTicks == 130

\* length of AudioFrame.hundred_hz_buckets (the update loop reads 4..19)
NumBuckets == 21

(* --------------------------- f32 arithmetic ---------------------------- *)

\* 2^24: a magnitude below it fits the 24-bit significand exactly
SignificandLimit == 16777216

RECURSIVE F32Ulp(_)
\* spacing of f32 values at magnitude x (in units of the model's grid)
F32Ulp(x) == IF x < SignificandLimit THEN 1 ELSE 2 * F32Ulp(x \div 2)

\* round-to-nearest, ties-to-even, of a non-negative exact value
F32RoundMag(x) ==
    LET u == F32Ulp(x)
        q == x \div u
        r == x % u
    IN  IF 2 * r < u THEN q * u
        ELSE IF 2 * r > u THEN (q + 1) * u
        ELSE IF q % 2 = 0 THEN q * u ELSE (q + 1) * u

\* round-to-nearest, ties-to-even, of an exact value (the set binds the
\* value of x, so that x is evaluated once)
F32Round(x) ==
    CHOOSE r \in { IF v < 0 THEN 0 - F32RoundMag(0 - v) ELSE F32RoundMag(v) :
                   v \in { x } } : TRUE

F32Add(a, b) == F32Round(a + b)

F32Sub(a, b) == F32Round(a - b)

\* f32::min(a, b)
F32Min(a, b) == IF b < a THEN b ELSE a

(* ------------------------ SmileyVisualizer: data ----------------------- *)

\* 1.0 in band/amplitude units
AmpOne == 8

\* the literal 0.1 as f32, in phase units
PhaseStep == 13421773

\* the constant 3.14 * 2.0 as f32, in phase units
PhaseWrap == 842887360

\* first and one-past-last band of "for i in 4..20"
BandLo == 4

BandHi == 20

Buckets == 0 .. (NumBuckets - 1)

\* GenerateVertexData with NUM_ATTRIBUTES_PER_VERTEX = 3 components a vertex
GenerateVertexDataThreeAttributes ==
    LET size == 1
    IN  << 0 - size, 0 - size, 0,
           0 - size, size, 0,
           size, size, 0,
           0 - size, 0 - size, 0,
           size, 0 - size, 0,
           size, size, 0 >>

\* generate_vertex_data(): six 2-component vertices, size = 1.0
GenerateVertexData ==
    LET size == 1
    IN  << 0 - size, 0 - size,
           0 - size, size,
           size, size,
           0 - size, 0 - size,
           size, 0 - size,
           size, size >>

RECURSIVE SumBands(_, _, _)
\* the loop "amplitude = 0.0; for i in 4..20 { amplitude += buckets[i] }"
\* from index i on, with acc the amplitude accumulated so far
SumBands(buckets, i, acc) ==
    IF i >= BandHi THEN acc
    ELSE SumBands(buckets, i + 1, F32Add(acc, buckets[i]))

\* UpdateAmplitude without the f32::min of line 108
UpdateAmplitudeUnclamped(frame) ==
    SumBands(frame.hundred_hz_buckets, BandLo, 0)

\* amplitude after SmileyVisualizer::update (lines 103-108)
UpdateAmplitude(frame) ==
    LET summed == SumBands(frame.hundred_hz_buckets, BandLo, 0)
        scaled == summed  \* amplitude /= 1.0
    IN  F32Min(AmpOne, scaled)

\* UpdatePhase without the wrap of lines 111-113
UpdatePhaseNoWrap(p) == F32Add(p, PhaseStep)

\* phase after SmileyVisualizer::update (lines 110-113)
UpdatePhase(p) ==
    LET q == F32Add(p, PhaseStep)
    IN  IF q >= PhaseWrap THEN F32Sub(q, PhaseWrap) ELSE q

\* SmileyVisualizer::new
NewVisualizer ==
    [ program_id     |-> 0,
      framebuffer_id |-> 0,
      vertex_data    |-> << >>,
      amplitude      |-> 0,
      phase          |-> 0 ]

\* SmileyUpdate building the visualizer anew instead of assigning three fields
SmileyUpdateFresh(v, frame) ==
    [ NewVisualizer EXCEPT !.vertex_data = GenerateVertexData,
                           !.amplitude   = UpdateAmplitude(frame),
                           !.phase       = UpdatePhase(v.phase) ]

\* SmileyVisualizer::update
SmileyUpdate(v, frame) ==
    [ v EXCEPT !.vertex_data = GenerateVertexData,
               !.amplitude   = UpdateAmplitude(frame),
               !.phase       = UpdatePhase(v.phase) ]

(* ------------------------------ inputs --------------------------------- *)

\* an AudioFrame whose bands are: out outside 4..19, a on 4..k-1, b on k..19
MakeFrame(out, a, k, b) ==
    [ hundred_hz_buckets |->
        [ i \in Buckets |->
            IF i < BandLo \/ i >= BandHi THEN out
            ELSE IF i < k THEN a ELSE b ] ]

\* band values: -1.0, -0.125, 0, 0.125, 0.5, 1.0
BandValues == { 0 - 8, 0 - 1, 0, 1, 4, 8 }

OutsideValues == { 0, 8 }

SplitPoints == { 4, 9, 12, 20 }

\* the frames fed to a lone visualizer
VisualizerFrames ==
    { MakeFrame(out, a, k, b) :
        out \in OutsideValues, a \in BandValues, k \in SplitPoints, b \in { 0, 4 } }

\* all bands zero
ZeroFrame == MakeFrame(0, 0, BandLo, 0)

\* bands 4..8 are 1.0, the rest zero: bands 4..19 sum to 5.0
LoudFrame == MakeFrame(0, AmpOne, 9, 0)

\* the frames the producer thread sends through the channel
ChannelFrames == { ZeroFrame, LoudFrame }

\* pipeline sizes given to run()
Sizes == { 256, 512 }

\* surface dimensions carried by Resized events
ResizeDims == { << 640, 480 >> }

(* ------------------------------- state --------------------------------- *)

VARIABLES
    mode,           \* "windowed" iff screen.uses_window()
    size,           \* the size argument of run(), kept as GfxPipeline.size
    pc,             \* position of the driver thread
    running,        \* the windowed loop's flag
    failure,        \* what terminated the process, "none" while it lives
    windowDims,     \* dimensions of the windowing surface
    events,         \* windowing-system events not yet polled
    evCount,        \* events delivered so far
    chan,           \* frames queued in the mpsc channel
    producerAlive,  \* the Sender has not been dropped
    sent,           \* every frame the producer sent, in send order
    audio_frame,    \* the loop's local audio_frame
    lastRecv,       \* outcome of the latest audio_rx.recv()
    vis,            \* the SmileyVisualizer
    gl,             \* state of the graphics context
    setupLog,       \* setup calls made by GfxPipeline::new, in order
    tickLog,        \* calls made by the current GfxPipeline::update, in order
    updated,        \* every frame passed to GfxPipeline::update, in order
    stats           \* how often each operation has been invoked

vars == << mode, size, pc, running, failure, windowDims, events, evCount,
           chan, producerAlive, sent, audio_frame, lastRecv, vis, gl,
           setupLog, tickLog, updated, stats >>

Modes == { "windowed", "headless" }

\* no AudioFrame received yet
NoFrame == [ hundred_hz_buckets |-> << >> ]

\* dimensions of a window built without with_dimensions
DefaultDims == << 1024, 768 >>

\* handles glCreateProgram may return
ProgramHandles == { 3 }

\* graphics state before a context exists
NoContext ==
    [ current      |-> FALSE,
      vaoLoaded    |-> FALSE,
      blend        |-> FALSE,
      viewport     |-> << 0, 0, 0, 0 >>,
      shaders      |-> 0,
      programs     |-> 0,
      program      |-> 0,
      buffers      |-> 0,
      arrayBuffer  |-> 0,
      bufferData   |-> << >>,
      vaos         |-> 0,
      framebuffer  |-> 0,
      uAmplitude   |-> 0,
      uPhase       |-> 0,
      clears       |-> 0,
      draws        |-> 0,
      error        |-> 0 ]

ZeroStats ==
    [ recv     |-> 0,   \* frames received from the channel
      update   |-> 0,   \* GfxPipeline::update
      vupdate  |-> 0,   \* visualizer.update
      render   |-> 0,   \* visualizer.render_to_texture
      screen   |-> 0,   \* screen.render_from_texture
      present  |-> 0,   \* swap_buffers
      compiles |-> 0,   \* glCompileShader
      links    |-> 0 ]  \* glLinkProgram

Init ==
    /\ mode \in Modes
    /\ size \in Sizes
    /\ pc = "start"
    /\ running = FALSE
    /\ failure = "none"
    /\ windowDims = << 0, 0 >>
    /\ events = << >>
    /\ evCount = 0
    /\ chan = << >>
    /\ producerAlive = TRUE
    /\ sent = << >>
    /\ audio_frame = NoFrame
    /\ lastRecv = "none"
    /\ vis = NewVisualizer
    /\ gl = NoContext
    /\ setupLog = << >>
    /\ tickLog = << >>
    /\ updated = << >>
    /\ stats = ZeroStats

\* the process is alive and the render loop has not returned
Alive == pc \notin { "panicked", "done" }

\* "while running" in the windowed loop, "loop" in the headless one
LoopHead(run) ==
    IF mode = "windowed" THEN (IF run THEN "recv" ELSE "done") ELSE "recv"

(* ------------------------------ gl_try! -------------------------------- *)

\* gl::NO_ERROR
NoError == 0

\* error codes a graphics call may raise (GL_INVALID_OPERATION)
GlErrorCodes == { 1282 }

\* what a graphics call may leave behind: nothing, or an error
GlOutcomes == { NoError } \cup GlErrorCodes

\* the context after a call that raised err: the error flag keeps the first
\* error until glGetError reads it
GlRaise(g, err) == [ g EXCEPT !.error = IF @ = NoError THEN err ELSE @ ]

\* cfg!(debug_assertion) in gl_try!: rustc sets debug_assertions in a debug
\* build, and debug_assertion in no build
CfgDebugAssertion == FALSE

\* gl_try! panics after the call: it asks GetError only under the cfg
GlTryPanics(g) == CfgDebugAssertion /\ g.error # NoError

\* where the driver is after gl_try!-wrapped calls left the context g
AfterGlTry(g, next) == IF GlTryPanics(g) THEN "panicked" ELSE next

\* what ended the process after gl_try!-wrapped calls left the context g
FailureAfterGlTry(g, otherwise) == IF GlTryPanics(g) THEN "gl_error" ELSE otherwise

(* ------------------------- window and context -------------------------- *)

\* load_gl_window_as_context after a successful make_current
LoadGl(dims, vao) ==
    [ NoContext EXCEPT !.current   = TRUE,
                       !.vaoLoaded = vao,
                       !.blend     = TRUE,
                       !.viewport  = << 0, 0, dims[1], dims[2] >> ]

\* run(): pick the loop by screen.uses_window(), build the window and the
\* context; GlWindow::new(..).unwrap() and make_current().unwrap() may panic
CreateWindow ==
    /\ pc = "start"
    /\ \E ok \in BOOLEAN, vao \in BOOLEAN :
         IF ok
         THEN LET dims == IF mode = "windowed" THEN << size, size >>
                                                ELSE DefaultDims
              IN  /\ windowDims' = dims
                  /\ gl' = LoadGl(dims, vao)
                  /\ pc' = "new"
                  /\ failure' = failure
         ELSE /\ pc' = "panicked"
              /\ failure' = "window"
              /\ UNCHANGED << windowDims, gl >>
    /\ UNCHANGED << mode, size, running, events, evCount, chan, producerAlive,
                    sent, audio_frame, lastRecv, vis, setupLog, tickLog,
                    updated, stats >>

(* --------------------------- GfxPipeline::new -------------------------- *)

\* SmileyVisualizer::setup: the visualizer it leaves, what stopped it, and
\* the compile and link calls it made
SmileySetup(v, framebuffer_id, program, vsOk, fsOk, linkOk) ==
    IF ~vsOk
    THEN [ vis |-> v, failure |-> "vs_compile", compiles |-> 1, links |-> 0 ]
    ELSE IF ~fsOk
    THEN [ vis |-> v, failure |-> "fs_compile", compiles |-> 2, links |-> 0 ]
    ELSE IF ~linkOk
    THEN [ vis |-> [ v EXCEPT !.program_id = program ],
           failure |-> "link", compiles |-> 2, links |-> 1 ]
    ELSE [ vis |-> [ v EXCEPT !.program_id = program,
                              !.framebuffer_id = framebuffer_id ],
           failure |-> "none", compiles |-> 2, links |-> 1 ]

\* VisualizerSetup whose failure branches print the log but do not panic
VisualizerSetupNoPanic ==
    /\ pc = "new"
    /\ \E program \in ProgramHandles, vsOk \in BOOLEAN, fsOk \in BOOLEAN,
          linkOk \in BOOLEAN, err \in GlOutcomes :
         LET r == SmileySetup(vis, size, program, vsOk, fsOk, linkOk)
             g == GlRaise([ gl EXCEPT !.shaders = @ + r.compiles,
                                      !.programs = @ + r.links ], err)
         IN  /\ vis' = r.vis
             /\ failure' = FailureAfterGlTry(g, r.failure)
             /\ pc' = AfterGlTry(g, "screen_setup")
             /\ stats' = [ stats EXCEPT !.compiles = @ + r.compiles,
                                        !.links = @ + r.links ]
             /\ gl' = g
    /\ setupLog' = Append(setupLog, "visualizer.setup")
    /\ UNCHANGED << mode, size, running, windowDims, events, evCount, chan,
                    producerAlive, sent, audio_frame, lastRecv, tickLog,
                    updated >>

\* GfxPipeline::new, first call: visualizer.setup(&gl, size)
VisualizerSetup ==
    /\ pc = "new"
    /\ \E program \in ProgramHandles, vsOk \in BOOLEAN, fsOk \in BOOLEAN,
          linkOk \in BOOLEAN, err \in GlOutcomes :
         LET r == SmileySetup(vis, size, program, vsOk, fsOk, linkOk)
             g == GlRaise([ gl EXCEPT !.shaders = @ + r.compiles,
                                      !.programs = @ + r.links ], err)
         IN  /\ vis' = r.vis
             /\ failure' = FailureAfterGlTry(g, r.failure)
             /\ pc' = AfterGlTry(g, IF r.failure = "none" THEN "screen_setup"
                                                          ELSE "panicked")
             /\ stats' = [ stats EXCEPT !.compiles = @ + r.compiles,
                                        !.links = @ + r.links ]
             /\ gl' = g
    /\ setupLog' = Append(setupLog, "visualizer.setup")
    /\ UNCHANGED << mode, size, running, windowDims, events, evCount, chan,
                    producerAlive, sent, audio_frame, lastRecv, tickLog,
                    updated >>

\* ScreenSetup with the call of screen.setup left out
ScreenSetupSkipped ==
    /\ pc = "screen_setup"
    /\ running' = (mode = "windowed")
    /\ pc' = "recv"
    /\ UNCHANGED << mode, size, failure, windowDims, events, evCount, chan,
                    producerAlive, sent, audio_frame, lastRecv, vis, gl,
                    setupLog, tickLog, updated, stats >>

\* GfxPipeline::new, second call: screen.setup(&gl); then the loop is
\* entered ("let mut running = true" in the windowed loop)
ScreenSetup ==
    /\ pc = "screen_setup"
    /\ setupLog' = Append(setupLog, "screen.setup")
    /\ running' = (mode = "windowed")
    /\ pc' = "recv"
    /\ UNCHANGED << mode, size, failure, windowDims, events, evCount, chan,
                    producerAlive, sent, audio_frame, lastRecv, vis, gl,
                    tickLog, updated, stats >>

(* ------------------------------ the channel ---------------------------- *)

\* frames the producer may send in the current mode
SendLimit == IF mode = "headless" THEN MaxFrames ELSE MaxWindowedFrames

\* how many of the frames sent so far are not the all-zero frame
LoudSent == Cardinality({ i \in 1 .. Len(sent) : sent[i] # ZeroFrame })

\* producer thread: Sender::send(frame); the channel is unbounded
Send ==
    /\ Alive
    /\ producerAlive
    /\ Len(sent) < SendLimit
    /\ \E f \in ChannelFrames :
         /\ (f # ZeroFrame) => LoudSent < MaxLoudFrames
         /\ chan' = Append(chan, f)
         /\ sent' = Append(sent, f)
    /\ UNCHANGED << mode, size, pc, running, failure, windowDims, events,
                    evCount, producerAlive, audio_frame, lastRecv, vis, gl,
                    setupLog, tickLog, updated, stats >>

\* producer thread: the Sender is dropped
Disconnect ==
    /\ Alive
    /\ producerAlive
    /\ producerAlive' = FALSE
    /\ UNCHANGED << mode, size, pc, running, failure, windowDims, events,
                    evCount, chan, sent, audio_frame, lastRecv, vis, gl,
                    setupLog, tickLog, updated, stats >>

\* RecvOk that hands out the oldest frame without removing it
RecvOkPeek ==
    /\ pc = "recv"
    /\ chan # << >>
    /\ audio_frame' = Head(chan)
    /\ lastRecv' = "ok"
    /\ stats' = [ stats EXCEPT !.recv = @ + 1 ]
    /\ pc' = IF mode = "windowed" THEN "poll" ELSE "update"
    /\ UNCHANGED << mode, size, running, failure, windowDims, events, evCount,
                    chan, producerAlive, sent, vis, gl, setupLog, tickLog,
                    updated >>

\* audio_rx.recv() returns Ok(x): the oldest queued frame
RecvOk ==
    /\ pc = "recv"
    /\ chan # << >>
    /\ audio_frame' = Head(chan)
    /\ chan' = Tail(chan)
    /\ lastRecv' = "ok"
    /\ stats' = [ stats EXCEPT !.recv = @ + 1 ]
    /\ pc' = IF mode = "windowed" THEN "poll" ELSE "update"
    /\ UNCHANGED << mode, size, running, failure, windowDims, events, evCount,
                    producerAlive, sent, vis, gl, setupLog, tickLog, updated >>

\* RecvErr that falls through to the update with the frame it still holds
RecvErrFallsThrough ==
    /\ pc = "recv"
    /\ chan = << >>
    /\ ~producerAlive
    /\ lastRecv' = "err"
    /\ pc' = "update"
    /\ UNCHANGED << mode, size, running, failure, windowDims, events, evCount,
                    chan, producerAlive, sent, audio_frame, vis, gl, setupLog,
                    tickLog, updated, stats >>

\* RecvErr that breaks out of the loop when the producer is gone
RecvErrBreaks ==
    /\ pc = "recv"
    /\ chan = << >>
    /\ ~producerAlive
    /\ lastRecv' = "err"
    /\ pc' = "done"
    /\ UNCHANGED << mode, size, running, failure, windowDims, events, evCount,
                    chan, producerAlive, sent, audio_frame, vis, gl, setupLog,
                    tickLog, updated, stats >>

\* audio_rx.recv() returns Err(_): the queue is empty and the Sender is
\* gone; "Err(_) => continue" goes back to the head of the loop
RecvErr ==
    /\ pc = "recv"
    /\ chan = << >>
    /\ ~producerAlive
    /\ lastRecv' = "err"
    /\ pc' = LoopHead(running)
    /\ UNCHANGED << mode, size, running, failure, windowDims, events, evCount,
                    chan, producerAlive, sent, audio_frame, vis, gl, setupLog,
                    tickLog, updated, stats >>

(* --------------------------- windowing events -------------------------- *)

ClosedEvent == [ type |-> "Closed", w |-> 0, h |-> 0 ]

OtherEvent == [ type |-> "Other", w |-> 0, h |-> 0 ]

ResizedEvent(d) == [ type |-> "Resized", w |-> d[1], h |-> d[2] ]

WindowEvents ==
    { ClosedEvent, OtherEvent } \cup { ResizedEvent(d) : d \in ResizeDims }

\* the windowing system queues an event for the window
DeliverEvent ==
    /\ mode = "windowed"
    /\ Alive
    /\ pc # "start"
    /\ evCount < MaxEvents
    /\ \E e \in WindowEvents : events' = Append(events, e)
    /\ evCount' = evCount + 1
    /\ UNCHANGED << mode, size, pc, running, failure, windowDims, chan,
                    producerAlive, sent, audio_frame, lastRecv, vis, gl,
                    setupLog, tickLog, updated, stats >>

RECURSIVE PollRunning(_, _)
\* the flag after the poll_events callback has seen every event of evs
PollRunning(evs, run) ==
    IF evs = << >> THEN run
    ELSE PollRunning(Tail(evs),
                     IF Head(evs).type = "Closed" THEN FALSE ELSE run)

RECURSIVE PollDims(_, _)
\* the surface dimensions after the callback has seen every event of evs
PollDims(evs, dims) ==
    IF evs = << >> THEN dims
    ELSE PollDims(Tail(evs),
                  IF Head(evs).type = "Resized"
                  THEN << Head(evs).w, Head(evs).h >> ELSE dims)

\* PollEvents that also resizes the pipeline to a Resized event's width
PollEventsResizesPipeline ==
    /\ pc = "poll"
    /\ running' = PollRunning(events, running)
    /\ windowDims' = PollDims(events, windowDims)
    /\ size' = PollDims(events, << size, size >>)[1]
    /\ events' = << >>
    /\ pc' = "update"
    /\ UNCHANGED << mode, failure, evCount, chan, producerAlive, sent,
                    audio_frame, lastRecv, vis, gl, setupLog, tickLog, updated,
                    stats >>

\* PollEvents that leaves the loop as soon as it has seen a Closed event
PollEventsBreaksOnClose ==
    /\ pc = "poll"
    /\ running' = PollRunning(events, running)
    /\ windowDims' = PollDims(events, windowDims)
    /\ events' = << >>
    /\ pc' = IF PollRunning(events, running) THEN "update" ELSE "done"
    /\ UNCHANGED << mode, size, failure, evCount, chan, producerAlive, sent,
                    audio_frame, lastRecv, vis, gl, setupLog, tickLog, updated,
                    stats >>

\* events_loop.poll_events(..): drain every pending event, without blocking
PollEvents ==
    /\ pc = "poll"
    /\ running' = PollRunning(events, running)
    /\ windowDims' = PollDims(events, windowDims)
    /\ events' = << >>
    /\ pc' = "update"
    /\ UNCHANGED << mode, size, failure, evCount, chan, producerAlive, sent,
                    audio_frame, lastRecv, vis, gl, setupLog, tickLog, updated,
                    stats >>

(* -------------------------- GfxPipeline::update ------------------------ *)

\* gl.Viewport(0, 0, self.size, self.size)
InternalViewport(s) == << 0, 0, s, s >>

\* ScreenViewport without the doubling
ScreenViewportUnscaled(s) == << 0, 0, s, s >>

\* gl.Viewport(0, 0, self.size * 2, self.size * 2)
ScreenViewport(s) == << 0, 0, s * 2, s * 2 >>

LogCall(name) == [ call |-> name, viewport |-> gl'.viewport ]

\* SmileyVisualizer::render_to_texture: the graphics state it leaves
RenderToTexture(g, v) ==
    [ g EXCEPT !.program     = v.program_id,
               !.buffers     = @ + 1,
               !.arrayBuffer = g.buffers + 1,
               !.bufferData  = v.vertex_data,
               !.vaos        = IF g.vaoLoaded THEN @ + 1 ELSE @,
               !.uAmplitude  = v.amplitude,
               !.uPhase      = v.phase,
               !.framebuffer = v.framebuffer_id,
               !.clears      = @ + 1,
               !.draws       = @ + 1 ]

\* GfxPipeline::update, line 139: self.visualizer.update(audio_frame)
GfxVisualizerUpdate ==
    /\ pc = "update"
    /\ vis' = SmileyUpdate(vis, audio_frame)
    /\ gl' = gl
    /\ tickLog' = << LogCall("visualizer.update") >>
    /\ updated' = Append(updated, audio_frame)
    /\ stats' = [ stats EXCEPT !.update = @ + 1, !.vupdate = @ + 1 ]
    /\ pc' = "clear"
    /\ UNCHANGED << mode, size, running, failure, windowDims, events, evCount,
                    chan, producerAlive, sent, audio_frame, lastRecv, setupLog >>

\* lines 143-146: ClearColor, Clear, Viewport(0, 0, size, size)
GfxClear ==
    /\ pc = "clear"
    /\ \E err \in GlOutcomes :
         gl' = GlRaise([ gl EXCEPT !.clears = @ + 1,
                                   !.viewport = InternalViewport(size) ], err)
    /\ pc' = AfterGlTry(gl', "render")
    /\ failure' = FailureAfterGlTry(gl', failure)
    /\ UNCHANGED << mode, size, running, windowDims, events, evCount,
                    chan, producerAlive, sent, audio_frame, lastRecv, vis,
                    setupLog, tickLog, updated, stats >>

\* line 147: self.visualizer.render_to_texture(gl)
GfxRenderToTexture ==
    /\ pc = "render"
    /\ \E err \in GlOutcomes : gl' = GlRaise(RenderToTexture(gl, vis), err)
    /\ tickLog' = Append(tickLog, LogCall("render_to_texture"))
    /\ stats' = [ stats EXCEPT !.render = @ + 1 ]
    /\ pc' = AfterGlTry(gl', "screen")
    /\ failure' = FailureAfterGlTry(gl', failure)
    /\ UNCHANGED << mode, size, running, windowDims, events, evCount,
                    chan, producerAlive, sent, audio_frame, lastRecv, vis,
                    setupLog, updated >>

\* GfxRenderScreen with the call of render_from_texture left out
GfxRenderScreenSkipped ==
    /\ pc = "screen"
    /\ \E err \in GlOutcomes :
         gl' = GlRaise([ gl EXCEPT !.viewport = ScreenViewport(size) ], err)
    /\ pc' = AfterGlTry(gl', IF mode = "windowed" THEN "swap"
                                                  ELSE LoopHead(running))
    /\ failure' = FailureAfterGlTry(gl', failure)
    /\ UNCHANGED << mode, size, running, windowDims, events, evCount,
                    chan, producerAlive, sent, audio_frame, lastRecv, vis,
                    setupLog, tickLog, updated, stats >>

\* lines 148-149: Viewport(0, 0, size * 2, size * 2), then
\* self.screen.render_from_texture(gl, texture, self.size); update returns
GfxRenderScreen ==
    /\ pc = "screen"
    /\ \E err \in GlOutcomes :
         gl' = GlRaise([ gl EXCEPT !.viewport = ScreenViewport(size) ], err)
    /\ tickLog' = Append(tickLog, LogCall("render_from_texture"))
    /\ stats' = [ stats EXCEPT !.screen = @ + 1 ]
    /\ pc' = AfterGlTry(gl', IF mode = "windowed" THEN "swap"
                                                  ELSE LoopHead(running))
    /\ failure' = FailureAfterGlTry(gl', failure)
    /\ UNCHANGED << mode, size, running, windowDims, events, evCount,
                    chan, producerAlive, sent, audio_frame, lastRecv, vis,
                    setupLog, updated >>

\* SwapBuffers without the unwrap: a failed present is ignored
SwapBuffersIgnoresError ==
    /\ pc = "swap"
    /\ stats' = [ stats EXCEPT !.present = @ + 1 ]
    /\ \E ok \in BOOLEAN :
         IF ok
         THEN /\ pc' = LoopHead(running)
              /\ failure' = failure
         ELSE /\ pc' = LoopHead(running)
              /\ failure' = "swap"
    /\ UNCHANGED << mode, size, running, windowDims, events, evCount, chan,
                    producerAlive, sent, audio_frame, lastRecv, vis, gl,
                    setupLog, tickLog, updated >>

\* gl_window.swap_buffers().unwrap(), then back to "while running"
SwapBuffers ==
    /\ pc = "swap"
    /\ stats' = [ stats EXCEPT !.present = @ + 1 ]
    /\ \E ok \in BOOLEAN :
         IF ok
         THEN /\ pc' = LoopHead(running)
              /\ failure' = failure
         ELSE /\ pc' = "panicked"
              /\ failure' = "swap"
    /\ UNCHANGED << mode, size, running, windowDims, events, evCount, chan,
                    producerAlive, sent, audio_frame, lastRecv, vis, gl,
                    setupLog, tickLog, updated >>

(* ---------------------------- specifications --------------------------- *)

Next ==
    \/ CreateWindow
    \/ VisualizerSetup
    \/ ScreenSetup
    \/ Send
    \/ Disconnect
    \/ RecvOk
    \/ RecvErr
    \/ DeliverEvent
    \/ PollEvents
    \/ GfxVisualizerUpdate
    \/ GfxClear
    \/ GfxRenderToTexture
    \/ GfxRenderScreen
    \/ SwapBuffers

Spec == Init /\ [][Next]_vars

\* the steps of the driver thread: it runs whenever it is not blocked in
\* recv(), while the producer and the windowing system need never act
DriverStep ==
    \/ CreateWindow
    \/ VisualizerSetup
    \/ ScreenSetup
    \/ RecvOk
    \/ RecvErr
    \/ PollEvents
    \/ GfxVisualizerUpdate
    \/ GfxClear
    \/ GfxRenderToTexture
    \/ GfxRenderScreen
    \/ SwapBuffers

\* run() with a screen that uses a window
InitWindowed == Init /\ mode = "windowed"

\* the windowed loop with a driver thread that keeps being scheduled
SpecWindowedFair == InitWindowed /\ [][Next]_vars /\ WF_vars(DriverStep)

(* A SmileyVisualizer on its own: new(), then update with any frames.       *)

InitVisualizer ==
    /\ mode = "headless"
    /\ size = 0
    /\ pc = "visualizer"
    /\ running = FALSE
    /\ failure = "none"
    /\ windowDims = << 0, 0 >>
    /\ events = << >>
    /\ evCount = 0
    /\ chan = << >>
    /\ producerAlive = TRUE
    /\ sent = << >>
    /\ audio_frame = NoFrame
    /\ lastRecv = "none"
    /\ vis = NewVisualizer
    /\ gl = NoContext
    /\ setupLog = << >>
    /\ tickLog = << >>
    /\ updated = << >>
    /\ stats = ZeroStats

\* visualizer.update(frame) for any frame
VisualizerTick ==
    /\ pc = "visualizer"
    /\ stats.vupdate < MaxTicks
    /\ \E f \in VisualizerFrames :
         /\ audio_frame' = f
         /\ vis' = SmileyUpdate(vis, f)
    /\ stats' = [ stats EXCEPT !.vupdate = @ + 1 ]
    /\ UNCHANGED << mode, size, pc, running, failure, windowDims, events,
                    evCount, chan, producerAlive, sent, lastRecv, gl, setupLog,
                    tickLog, updated >>

NextVisualizer == VisualizerTick

SpecVisualizer == InitVisualizer /\ [][NextVisualizer]_vars

(* ------------------------------- claims -------------------------------- *)

\* the call names of a log, in order
CallNames(log) == [ i \in 1 .. Len(log) |-> log[i].call ]

\* the calls one GfxPipeline::update is to make
UpdateOrder == << "visualizer.update", "render_to_texture", "render_from_texture" >>

\* the calls GfxPipeline::new is to make
SetupOrder == << "visualizer.setup", "screen.setup" >>

\* the driver is inside GfxPipeline::update
InUpdate == pc \in { "clear", "render", "screen" }

\* positions of the driver inside either render loop, or after it
LoopPcs == { "recv", "poll", "update", "clear", "render", "screen", "swap", "done" }

IsPrefix(s, t) == Len(s) <= Len(t) /\ s = SubSeq(t, 1, Len(s))

RECURSIVE RangeSum(_, _, _)
\* b[lo] + ... + b[hi] as an exact integer sum
RangeSum(b, lo, hi) == IF lo > hi THEN 0 ELSE b[lo] + RangeSum(b, lo + 1, hi)

\* C1: within every GfxPipeline::update the calls are visualizer.update, then
\* render_to_texture, then render_from_texture, each exactly once; so after
\* any number of update calls each of the three has run once per call.
C1_UpdateCallOrder ==
    /\ IsPrefix(CallNames(tickLog), UpdateOrder)
    /\ (pc \in { "clear", "render" }) => Len(tickLog) = 1
    /\ (pc = "screen") => Len(tickLog) = 2
    /\ (~InUpdate /\ stats.update > 0) => CallNames(tickLog) = UpdateOrder
    /\ ~InUpdate => /\ stats.vupdate = stats.update
                    /\ stats.render = stats.update
                    /\ stats.screen = stats.update

\* two update calls have returned
C1_Witness == stats.update = 2 /\ pc = "recv" /\ stats.screen = 2

\* C2: render_to_texture runs with the viewport (0,0,size,size) and
\* render_from_texture with (0,0,2*size,2*size), on every tick, also after a
\* window resize.
C2_Viewports ==
    /\ (pc = "render") => gl.viewport = << 0, 0, size, size >>
    /\ \A i \in 1 .. Len(tickLog) :
         /\ (tickLog[i].call = "render_to_texture")
              => tickLog[i].viewport = << 0, 0, size, size >>
         /\ (tickLog[i].call = "render_from_texture")
              => tickLog[i].viewport = << 0, 0, size + size, size + size >>

\* a whole tick ran after a resize event changed the surface
C2_Witness ==
    /\ mode = "windowed"
    /\ windowDims # << size, size >>
    /\ pc = "swap"
    /\ Len(tickLog) = 3

\* C3: GfxPipeline::new calls visualizer.setup, then screen.setup, once each,
\* and both are done before the loop's first receive or update, in both loops.
C3_SetupOrder ==
    /\ IsPrefix(setupLog, SetupOrder)
    /\ (pc \in LoopPcs) => setupLog = SetupOrder
    /\ (stats.recv + stats.update + stats.vupdate + stats.render + stats.screen > 0)
         => setupLog = SetupOrder

\* the first update call was made, after both setups
C3_Witness == stats.update = 1 /\ pc = "clear" /\ setupLog = SetupOrder

\* every band of the frame lies in [0,1]
BandsInUnitRange(frame) ==
    \A i \in DOMAIN frame.hundred_hz_buckets :
        0 <= frame.hundred_hz_buckets[i] /\ frame.hundred_hz_buckets[i] <= AmpOne

\* the exact sum of bands 4..19 of the frame
MidBandSum(frame) == RangeSum(frame.hundred_hz_buckets, 4, 19)

\* x clamped to [0,1]
ClampUnit(x) == IF x < 0 THEN 0 ELSE IF x > AmpOne THEN AmpOne ELSE x

\* C4: after update with a frame whose bands all lie in [0,1] the amplitude
\* lies in [0,1], and it is exactly 1.0 when bands 4..19 sum to more than 1.
C4_AmplitudeInUnitRange ==
    (stats.vupdate > 0 /\ BandsInUnitRange(audio_frame))
        => /\ 0 <= vis.amplitude
           /\ vis.amplitude <= AmpOne
           /\ (MidBandSum(audio_frame) > AmpOne) => vis.amplitude = AmpOne

\* a frame whose bands 4..19 sum to 5.0 was applied
C4_Witness ==
    /\ stats.vupdate > 1
    /\ BandsInUnitRange(audio_frame)
    /\ MidBandSum(audio_frame) = 5 * AmpOne
    /\ vis.amplitude = AmpOne

\* C5: after update with any frame the amplitude is the sum of bands 4..19
\* clamped to [0,1]: 0 when the sum is below 0, 1 when it is above 1.
C5_AmplitudeIsClampedSum ==
    (stats.vupdate > 0) => vis.amplitude = ClampUnit(MidBandSum(audio_frame))

\* half the spacing of f32 values just below 3.14 * 2.0: the rounding error
\* of one f32 operation on a phase
PhaseTol == F32Ulp(PhaseWrap - 1) \div 2

\* |a - b| <= tol
Within(a, b, tol) == a - b <= tol /\ b - a <= tol

\* 0.1 * n as a real number, in phase units and rounded down
TenthTimes(n) == n * 13421772 + (8 * n) \div 10

\* one update takes phase p to phase q as C6 says, up to f32 rounding
PhaseStepOk(p, q) ==
    IF p + PhaseStep < PhaseWrap
    THEN Within(q, p + PhaseStep, PhaseTol)
    ELSE Within(q, p + PhaseStep - PhaseWrap, PhaseTol)

\* C6: each update takes the phase p to p + 0.1, less 6.28 exactly when
\* p + 0.1 reaches 6.28; while 0.1 * N stays below 6.28 the phase after N
\* updates is 0.1 * N (each up to f32 rounding), whatever the frames.
C6_PhaseAdvance ==
    /\ [][ (stats'.vupdate = stats.vupdate + 1) => PhaseStepOk(vis.phase, vis'.phase) ]_vars
    /\ [] ( (TenthTimes(stats.vupdate) < PhaseWrap)
              => Within(vis.phase, TenthTimes(stats.vupdate),
                        stats.vupdate * (PhaseTol + 1)) )

\* the update that wrapped the phase has run
C6_Witness == stats.vupdate = 63 /\ vis.phase < PhaseStep

\* the ways visualizer setup can fail
SetupFailures == { "vs_compile", "fs_compile", "link" }

\* C7: when a shader compile or the program link fails in visualizer setup,
\* the process ends inside setup: no screen.setup, no channel receive, no
\* update, no render and no present ever happens.
C7_SetupFailureIsFatal ==
    (failure \in SetupFailures)
        => /\ pc = "panicked"
           /\ setupLog = << "visualizer.setup" >>
           /\ stats.recv = 0
           /\ lastRecv = "none"
           /\ stats.update = 0
           /\ stats.vupdate = 0
           /\ stats.render = 0
           /\ stats.screen = 0
           /\ stats.present = 0
           /\ tickLog = << >>

\* the link failed while the producer had already queued a frame
C7_Witness == failure = "link" /\ Len(chan) > 0 /\ stats.links = 1

\* C8: once setup has succeeded, update + render_to_texture cycles compile no
\* shader and link no program, never call setup again, and leave program_id
\* and framebuffer_id as setup stored them.
C8_NoSetupAfterSetup ==
    /\ [][ (setupLog = SetupOrder)
             => /\ stats'.compiles = stats.compiles
                /\ stats'.links = stats.links
                /\ setupLog' = setupLog
                /\ vis'.program_id = vis.program_id
                /\ vis'.framebuffer_id = vis.framebuffer_id ]_vars
    /\ [] ( (setupLog = SetupOrder)
              => /\ stats.compiles = 2
                 /\ stats.links = 1
                 /\ vis.program_id \in ProgramHandles
                 /\ vis.framebuffer_id = size
                 /\ (stats.render > 0) => /\ gl.program = vis.program_id
                                          /\ gl.framebuffer = vis.framebuffer_id )

\* two update + render_to_texture cycles ran after setup
C8_Witness == stats.render = 2 /\ stats.vupdate = 2 /\ stats.compiles = 2

\* the frame the driver holds between its receive and its update call
InFlight == IF pc \in { "poll", "update" } THEN << audio_frame >> ELSE << >>

\* n all-zero frames
ZeroFrames(n) == [ i \in 1 .. n |-> ZeroFrame ]

\* 1.0 in phase units (2^27)
PhaseOne == 8 * SignificandLimit

\* C9: in the headless loop, whatever the interleaving with the producer,
\* the frames passed to GfxPipeline::update are a prefix of the frames sent,
\* in send order, none skipped and none twice; each received frame drives one
\* update and one render_to_texture; the loop never ends; after 10 all-zero
\* frames render_to_texture ran 10 times, amplitude is 0 and phase is 1.0.
C9_HeadlessFramesInOrder ==
    (mode = "headless")
        => /\ IsPrefix(updated, sent)
           /\ sent = updated \o InFlight \o chan
           /\ stats.recv = Len(updated) + Len(InFlight)
           /\ stats.update = Len(updated)
           /\ stats.vupdate = Len(updated)
           /\ stats.render = Len(updated) - (IF pc \in { "clear", "render" } THEN 1 ELSE 0)
           /\ (setupLog = SetupOrder)
                => pc \in { "recv", "update", "clear", "render", "screen" }
           /\ (updated = ZeroFrames(10) /\ pc = "recv")
                => /\ stats.render = 10
                   /\ vis.amplitude = 0
                   /\ Within(vis.phase, PhaseOne, 10 * PhaseTol)

\* ten all-zero frames were consumed by the headless loop
C9_Witness ==
    /\ mode = "headless"
    /\ pc = "recv"
    /\ updated = ZeroFrames(10)
    /\ stats.render = 10

\* C10: when the receive reports the producer disconnected, the loop goes on
\* without calling GfxPipeline::update or present: visualizer and graphics
\* state stay as they are; frames rendered never exceed frames received.
C10_DisconnectSkipsTick ==
    /\ [][ (pc = "recv" /\ chan = << >> /\ ~producerAlive)
             => /\ pc' = "recv"
                /\ vis' = vis
                /\ gl' = gl
                /\ stats' = stats
                /\ tickLog' = tickLog
                /\ updated' = updated ]_vars
    /\ [] ( /\ stats.update <= stats.recv
            /\ stats.render <= stats.recv
            /\ stats.screen <= stats.recv
            /\ stats.present <= stats.recv )

\* the windowed loop saw the disconnect after it had rendered a frame
C10_Witness ==
    /\ mode = "windowed"
    /\ lastRecv = "err"
    /\ pc = "recv"
    /\ stats.present = 1

\* a close event has been delivered and not yet polled
ClosePending == \E i \in 1 .. Len(events) : events[i].type = "Closed"

\* C11: in the windowed loop, once a close event has been delivered the loop
\* eventually stops, also when the producer sends nothing more or is gone.
C11_CloseStopsLoop ==
    (mode = "windowed" /\ ClosePending) ~> (pc \in { "done", "panicked" })

\* C12: each visualizer has at most one GPU program and at most one vertex
\* buffer in existence (created and not deleted) at any time; it creates no
\* render target of its own, and nothing is ever deleted.
C12_AtMostOneOfEach ==
    /\ gl.programs <= 1
    /\ gl.buffers <= 1

\* C13: whenever a gl_try!-wrapped call has left an error in the context,
\* the process has terminated with that error, before any later graphics call.
C13_GlErrorIsFatal ==
    (gl.error # NoError) => (pc = "panicked" /\ failure = "gl_error")

\* C14: the pipeline size never changes after construction; polling events,
\* a resize included, touches only the surface and the loop flag, and later
\* ticks still use the viewports of the size given at construction.
C14_SizeIsFixed ==
    /\ [][ size' = size ]_vars
    /\ [][ (pc = "poll" /\ pc' # "poll")
             => (vis' = vis /\ gl' = gl /\ stats' = stats /\ tickLog' = tickLog) ]_vars
    /\ [] ( (stats.screen > 0 /\ pc \in { "recv", "poll", "update", "swap", "done" })
              => gl.viewport = << 0, 0, size + size, size + size >> )
    /\ [] ( (pc \in { "render", "screen" }) => gl.viewport = << 0, 0, size, size >> )

\* a tick ran and was presented after a resize event changed the surface
C14_Witness ==
    /\ mode = "windowed"
    /\ pc = "recv"
    /\ windowDims \in ResizeDims
    /\ windowDims # << size, size >>
    /\ stats.present = 1
    /\ gl.viewport = << 0, 0, size + size, size + size >>

\* C15: in every state of a SmileyVisualizer, from phase 0 and after any
\* updates with any frames, 0 <= phase < 6.28.
C15_PhaseInRange == 0 <= vis.phase /\ vis.phase < PhaseWrap

\* the phase has wrapped twice
C15_Witness == stats.vupdate = 126 /\ vis.phase < PhaseStep /\ vis.phase > 0

\* positions of the driver inside the headless loop
HeadlessLoopPcs == { "recv", "update", "clear", "render", "screen" }

\* C16: the headless loop never returns: from inside the loop the driver
\* stays inside it, whatever arrives, unless a fatal error ends the process.
C16_HeadlessNeverReturns ==
    /\ [] ( (mode = "headless") => pc # "done" )
    /\ [][ (mode = "headless" /\ pc \in HeadlessLoopPcs)
             => pc' \in HeadlessLoopPcs \cup { "panicked" } ]_vars

\* the headless loop is still at its receive after the producer disconnected
C16_Witness ==
    /\ mode = "headless"
    /\ lastRecv = "err"
    /\ pc = "recv"
    /\ ~producerAlive
    /\ stats.render = 3

\* C17: after every update the vertex data is the 12 floats
\* -1,-1, -1,1, 1,1, -1,-1, 1,-1, 1,1, whatever the frame and the data before.
C17_VertexDataIsQuad ==
    (stats.vupdate > 0)
        => vis.vertex_data = << 0 - 1, 0 - 1, 0 - 1, 1, 1, 1,
                                0 - 1, 0 - 1, 1, 0 - 1, 1, 1 >>

\* an update replaced vertex data that an earlier update had stored
C17_Witness == stats.vupdate = 2 /\ Len(vis.vertex_data) = 12

\* C18: in the windowed loop present is called once per received frame,
\* directly after that frame's GfxPipeline::update and in no iteration
\* without one; a failed present ends the process and nothing follows it.
C18_PresentOncePerFrame ==
    /\ [] ( (mode = "windowed")
              => /\ stats.present <= stats.update
                 /\ stats.update <= stats.recv
                 /\ (pc \in { "recv", "done" }) => stats.present = stats.recv
                 /\ (pc = "swap") => stats.present + 1 = stats.recv
                 /\ (failure = "swap") => pc = "panicked" )
    /\ [][ (stats'.present # stats.present)
             => /\ pc = "swap"
                /\ stats'.present = stats.present + 1
                /\ stats.update = stats.present + 1
                /\ stats.screen = stats.update
                /\ CallNames(tickLog) = UpdateOrder ]_vars
    /\ [][ (failure = "swap") => (stats' = stats /\ pc' = pc) ]_vars

\* the second present failed
C18_Witness == failure = "swap" /\ stats.present = 2 /\ pc = "panicked"

\* C19: in the windowed loop events are drained only after a frame was
\* received in that iteration; when the drain sees a close event that frame
\* is still updated and presented once, and then the loop exits with no
\* further receive, update or present.
C19_CloseAfterFrame ==
    /\ [][ (Len(events') < Len(events))
             => (pc = "poll" /\ lastRecv = "ok" /\ stats.recv = stats.update + 1) ]_vars
    /\ [] ( (mode = "windowed" /\ setupLog = SetupOrder /\ ~running)
              => pc \in { "update", "clear", "render", "screen", "swap",
                          "done", "panicked" } )
    /\ [] ( (pc = "done")
              => /\ ~running
                 /\ stats.recv >= 1
                 /\ stats.update = stats.recv
                 /\ stats.present = stats.recv )
    /\ [][ (pc' = "done" /\ pc # "done") => pc = "swap" ]_vars
    /\ [][ (pc = "done") => (stats' = stats /\ pc' = pc) ]_vars

\* the loop exited after presenting its frame, leaving a queued frame behind
C19_Witness == pc = "done" /\ stats.present = 1 /\ Len(chan) = 1

====
